---------------------------- MODULE Spec2Model ----------------------------
(***************************************************************************)
(* A model of the BitcoinRPC facade of src/src/rpc/BitcoinRPC.ts: the      *)
(* transport handle and its lifecycle (constructor, init, destroy), the    *)
(* cached chain info with its purge timer, and, for every RPC method, the  *)
(* way the method turns the transport's answer into its own.               *)
(*                                                                         *)
(* JavaScript runs one callback at a time.  A step of the model is one     *)
(* such callback together with the promise continuations it makes ready:   *)
(* a call of a public method up to its first await, the answer of the      *)
(* transport with the continuations of the methods awaiting it, or a tick  *)
(* of the purge timer.  Calls in flight are answered in any order.         *)
(***************************************************************************)
EXTENDS Bags, FiniteSets, Integers, Sequences, TLC

(***************************************************************************)
(* Bounds.                                                                 *)
(***************************************************************************)
\* Transport invocations that may be awaiting their answer at one time.
MaxInFlight == 2
\* RPCClient objects that may be constructed between two destroy() calls
\* (a cap on the counter; init() itself allows one).
MaxClients == 2

(***************************************************************************)
(* JavaScript values.                                                      *)
(***************************************************************************)
Null == [t |-> "null"]
Undefined == [t |-> "undefined"]
Str(s) == [t |-> "string", v |-> s]
Num(n) == [t |-> "number", v |-> n]
Bool(b) == [t |-> "boolean", v |-> b]
\* An array of the given length.
Arr(n) == [t |-> "array", len |-> n]
Obj(tag) == [t |-> "object", tag |-> tag]
\* An Error (or any other value a promise rejects with).
Err(msg) == [t |-> "error", message |-> msg]
\* A BlockchainInfo as getblockchaininfo answers it.
BlockchainInfo(blocks, bestblockhash) ==
  [t |-> "object", blocks |-> blocks, bestblockhash |-> bestblockhash]

\* ToBoolean.
Truthy(x) ==
  CASE x.t = "null" -> FALSE
    [] x.t = "undefined" -> FALSE
    [] x.t = "string" -> x.v # ""
    [] x.t = "number" -> x.v # 0
    [] x.t = "boolean" -> x.v
    [] OTHER -> TRUE

Nullish(x) == x.t \in {"null", "undefined"}

\* x == '' (loose equality with the empty string).
LooseEqualsEmptyString(x) ==
  CASE x.t = "string" -> x.v = ""
    [] x.t = "number" -> x.v = 0
    [] x.t = "boolean" -> x.v = FALSE
    [] x.t = "array" -> x.len = 0
    [] OTHER -> FALSE

\* The values the transport may resolve a call to, by the declared type of
\* the method's result: null, undefined, and the falsy and truthy values of
\* the type.
TransportValues(type) ==
  CASE type = "string" -> {Null, Undefined, Str(""), Str("00ab")}
    [] type = "number" -> {Null, Undefined, Num(0), Num(7)}
    [] type = "boolean" -> {Null, Undefined, Bool(FALSE), Bool(TRUE)}
    [] type = "array" -> {Null, Undefined, Arr(0), Arr(2)}
    [] type = "object" -> {Null, Undefined, Obj("result")}
    [] OTHER -> {Null}

\* The values the transport may reject a call with.
TransportErrors == {Err("ECONNREFUSED"), Err("-8: Invalid parameter")}

\* The chain infos the node may answer.
ChainInfos == {BlockchainInfo(1, "h1"), BlockchainInfo(2, "h2")}

(***************************************************************************)
(* The RPC methods that only forward to the transport: for each its        *)
(* transport procedure, whether it throws 'RPC not initialized' when the   *)
(* handle is null, the kind of its declared result, what it does when      *)
(* the transport rejects (onReject: "return" the catch handler's value,    *)
(* "rethrow" from the catch handler, or "none": no catch handler), whether *)
(* the catch handler calls this.error, and how the awaited value is        *)
(* returned: x || null, x ?? null, x == '' ? null : x, as it is, or not at *)
(* all (void).                                                             *)
(***************************************************************************)
MethodTable ==
  {
    [name |-> "getBestBlockHash", rpcMethod |-> "getbestblockhash",
     checksHandle |-> TRUE, type |-> "string",
     onReject |-> "return", catchValue |-> Undefined, logs |-> TRUE, norm |-> "orNull"],
    [name |-> "getBlockBatch", rpcMethod |-> "getblockBatch",
     checksHandle |-> TRUE, type |-> "array",
     onReject |-> "return", catchValue |-> Null, logs |-> TRUE, norm |-> "orNull"],
    [name |-> "getBestBlockHeader", rpcMethod |-> "getbestblockheader",
     checksHandle |-> TRUE, type |-> "object",
     onReject |-> "return", catchValue |-> Null, logs |-> TRUE, norm |-> "asIs"],
    [name |-> "getDeploymentInfo", rpcMethod |-> "getdeploymentinfo",
     checksHandle |-> TRUE, type |-> "object",
     onReject |-> "return", catchValue |-> Null, logs |-> TRUE, norm |-> "asIs"],
    [name |-> "getMempoolEntryById", rpcMethod |-> "getmempoolentrybyid",
     checksHandle |-> TRUE, type |-> "object",
     onReject |-> "return", catchValue |-> Null, logs |-> TRUE, norm |-> "asIs"],
    [name |-> "generate", rpcMethod |-> "generate",
     checksHandle |-> TRUE, type |-> "array",
     onReject |-> "return", catchValue |-> Null, logs |-> TRUE, norm |-> "asIs"],
    [name |-> "generateBlock", rpcMethod |-> "generateblock",
     checksHandle |-> TRUE, type |-> "object",
     onReject |-> "return", catchValue |-> Null, logs |-> TRUE, norm |-> "asIs"],
    [name |-> "addPeerAddress", rpcMethod |-> "addpeeraddress",
     checksHandle |-> TRUE, type |-> "object",
     onReject |-> "return", catchValue |-> Null, logs |-> TRUE, norm |-> "asIs"],
    [name |-> "getNodeAddresses", rpcMethod |-> "getnodeaddresses",
     checksHandle |-> TRUE, type |-> "array",
     onReject |-> "return", catchValue |-> Null, logs |-> TRUE, norm |-> "asIs"],
    [name |-> "sendMsgToPeer", rpcMethod |-> "sendmsgtopeer",
     checksHandle |-> TRUE, type |-> "void",
     onReject |-> "rethrow", catchValue |-> Undefined, logs |-> TRUE, norm |-> "void"],
    [name |-> "submitPackage", rpcMethod |-> "submitpackage",
     checksHandle |-> TRUE, type |-> "object",
     onReject |-> "return", catchValue |-> Null, logs |-> TRUE, norm |-> "asIs"],
    [name |-> "getIndexInfo", rpcMethod |-> "getindexinfo",
     checksHandle |-> TRUE, type |-> "object",
     onReject |-> "return", catchValue |-> Null, logs |-> TRUE, norm |-> "asIs"],
    [name |-> "verifyChainLock", rpcMethod |-> "verifychainlock",
     checksHandle |-> TRUE, type |-> "object",
     onReject |-> "return", catchValue |-> Null, logs |-> TRUE, norm |-> "asIs"],
    [name |-> "createWalletDescriptor", rpcMethod |-> "createwalletdescriptor",
     checksHandle |-> TRUE, type |-> "object",
     onReject |-> "return", catchValue |-> Null, logs |-> TRUE, norm |-> "asIs"],
    [name |-> "getHDKeys", rpcMethod |-> "gethdkeys",
     checksHandle |-> TRUE, type |-> "array",
     onReject |-> "return", catchValue |-> Null, logs |-> TRUE, norm |-> "asIs"],
    [name |-> "importDescriptors", rpcMethod |-> "importdescriptors",
     checksHandle |-> TRUE, type |-> "object",
     onReject |-> "return", catchValue |-> Null, logs |-> TRUE, norm |-> "asIs"],
    [name |-> "listDescriptors", rpcMethod |-> "listdescriptors",
     checksHandle |-> TRUE, type |-> "object",
     onReject |-> "return", catchValue |-> Null, logs |-> TRUE, norm |-> "asIs"],
    [name |-> "migrateWallet", rpcMethod |-> "migratewallet",
     checksHandle |-> TRUE, type |-> "object",
     onReject |-> "return", catchValue |-> Null, logs |-> TRUE, norm |-> "asIs"],
    [name |-> "newKeypool", rpcMethod |-> "newkeypool",
     checksHandle |-> TRUE, type |-> "void",
     onReject |-> "rethrow", catchValue |-> Undefined, logs |-> TRUE, norm |-> "void"],
    [name |-> "psbtBumpFee", rpcMethod |-> "psbtbumpfee",
     checksHandle |-> TRUE, type |-> "object",
     onReject |-> "return", catchValue |-> Null, logs |-> TRUE, norm |-> "asIs"],
    [name |-> "send", rpcMethod |-> "send",
     checksHandle |-> TRUE, type |-> "object",
     onReject |-> "return", catchValue |-> Null, logs |-> TRUE, norm |-> "asIs"],
    [name |-> "sendAll", rpcMethod |-> "sendall",
     checksHandle |-> TRUE, type |-> "object",
     onReject |-> "return", catchValue |-> Null, logs |-> TRUE, norm |-> "asIs"],
    [name |-> "simulateRawTransaction", rpcMethod |-> "simulaterawtransaction",
     checksHandle |-> TRUE, type |-> "object",
     onReject |-> "return", catchValue |-> Null, logs |-> TRUE, norm |-> "asIs"],
    [name |-> "upgradeWallet", rpcMethod |-> "upgradewallet",
     checksHandle |-> TRUE, type |-> "object",
     onReject |-> "return", catchValue |-> Null, logs |-> TRUE, norm |-> "asIs"],
    [name |-> "getBlockAsHexString", rpcMethod |-> "getblock",
     checksHandle |-> TRUE, type |-> "string",
     onReject |-> "return", catchValue |-> Null, logs |-> TRUE, norm |-> "emptyString"],
    [name |-> "estimateSmartFee", rpcMethod |-> "estimatesmartfee",
     checksHandle |-> TRUE, type |-> "object",
     onReject |-> "none", catchValue |-> Undefined, logs |-> FALSE, norm |-> "asIs"],
    [name |-> "joinPSBTs", rpcMethod |-> "joinpsbts",
     checksHandle |-> TRUE, type |-> "string",
     onReject |-> "return", catchValue |-> Str(""), logs |-> TRUE, norm |-> "orNull"],
    [name |-> "getBlockInfoOnly", rpcMethod |-> "getblock",
     checksHandle |-> TRUE, type |-> "object",
     onReject |-> "return", catchValue |-> Null, logs |-> TRUE, norm |-> "orNull"],
    [name |-> "getBlockInfoWithTransactionData", rpcMethod |-> "getblock",
     checksHandle |-> TRUE, type |-> "object",
     onReject |-> "return", catchValue |-> Null, logs |-> TRUE, norm |-> "orNull"],
    [name |-> "getBlockHashes", rpcMethod |-> "getblockhashes",
     checksHandle |-> TRUE, type |-> "array",
     onReject |-> "return", catchValue |-> Arr(0), logs |-> TRUE, norm |-> "orNull"],
    [name |-> "getBlocksInfoWithTransactionData", rpcMethod |-> "getblockBatch",
     checksHandle |-> TRUE, type |-> "array",
     onReject |-> "return", catchValue |-> Null, logs |-> TRUE, norm |-> "orNull"],
    [name |-> "getBlockCount", rpcMethod |-> "getblockcount",
     checksHandle |-> TRUE, type |-> "number",
     onReject |-> "return", catchValue |-> Num(0), logs |-> TRUE, norm |-> "nullish"],
    [name |-> "getBlockFilter", rpcMethod |-> "getblockfilter",
     checksHandle |-> TRUE, type |-> "object",
     onReject |-> "return", catchValue |-> Null, logs |-> TRUE, norm |-> "orNull"],
    [name |-> "getBlockHash", rpcMethod |-> "getblockhash",
     checksHandle |-> TRUE, type |-> "string",
     onReject |-> "return", catchValue |-> Str(""), logs |-> TRUE, norm |-> "orNull"],
    [name |-> "getWalletInfo", rpcMethod |-> "getwalletinfo",
     checksHandle |-> TRUE, type |-> "object",
     onReject |-> "return", catchValue |-> Null, logs |-> TRUE, norm |-> "orNull"],
    [name |-> "createWallet", rpcMethod |-> "createwallet",
     checksHandle |-> TRUE, type |-> "object",
     onReject |-> "return", catchValue |-> Str(""), logs |-> TRUE, norm |-> "orNull"],
    [name |-> "loadWallet", rpcMethod |-> "loadwallet",
     checksHandle |-> TRUE, type |-> "object",
     onReject |-> "return", catchValue |-> Str(""), logs |-> TRUE, norm |-> "orNull"],
    [name |-> "listWallets", rpcMethod |-> "listwallets",
     checksHandle |-> TRUE, type |-> "array",
     onReject |-> "return", catchValue |-> Arr(0), logs |-> TRUE, norm |-> "orNull"],
    [name |-> "getNewAddress", rpcMethod |-> "getnewaddress",
     checksHandle |-> TRUE, type |-> "string",
     onReject |-> "return", catchValue |-> Str(""), logs |-> TRUE, norm |-> "orNull"],
    [name |-> "generateToAddress", rpcMethod |-> "generatetoaddress",
     checksHandle |-> TRUE, type |-> "array",
     onReject |-> "return", catchValue |-> Arr(0), logs |-> TRUE, norm |-> "orNull"],
    [name |-> "importPrivateKey", rpcMethod |-> "importprivkey",
     checksHandle |-> TRUE, type |-> "void",
     onReject |-> "return", catchValue |-> Undefined, logs |-> TRUE, norm |-> "void"],
    [name |-> "invalidateBlock", rpcMethod |-> "invalidateblock",
     checksHandle |-> TRUE, type |-> "void",
     onReject |-> "rethrow", catchValue |-> Undefined, logs |-> TRUE, norm |-> "void"],
    [name |-> "reconsiderBlock", rpcMethod |-> "reconsiderblock",
     checksHandle |-> TRUE, type |-> "void",
     onReject |-> "rethrow", catchValue |-> Undefined, logs |-> TRUE, norm |-> "void"],
    [name |-> "getAddressByLabel", rpcMethod |-> "getaddressesbylabel",
     checksHandle |-> TRUE, type |-> "object",
     onReject |-> "rethrow", catchValue |-> Undefined, logs |-> TRUE, norm |-> "orNull"],
    [name |-> "sendRawTransaction", rpcMethod |-> "sendrawtransaction",
     checksHandle |-> TRUE, type |-> "string",
     onReject |-> "rethrow", catchValue |-> Undefined, logs |-> FALSE, norm |-> "orNull"],
    [name |-> "decodeRawTransaction", rpcMethod |-> "decoderawtransaction",
     checksHandle |-> TRUE, type |-> "object",
     onReject |-> "return", catchValue |-> Null, logs |-> TRUE, norm |-> "orNull"],
    [name |-> "dumpPrivateKey", rpcMethod |-> "dumpprivkey",
     checksHandle |-> TRUE, type |-> "string",
     onReject |-> "return", catchValue |-> Str(""), logs |-> TRUE, norm |-> "orNull"],
    [name |-> "getRawTransaction", rpcMethod |-> "getrawtransaction",
     checksHandle |-> TRUE, type |-> "object",
     onReject |-> "return", catchValue |-> Null, logs |-> TRUE, norm |-> "orNull"],
    [name |-> "getRawTransactions", rpcMethod |-> "getrawtransactionBatch",
     checksHandle |-> TRUE, type |-> "array",
     onReject |-> "return", catchValue |-> Null, logs |-> TRUE, norm |-> "orNull"],
    [name |-> "getBlockHeader", rpcMethod |-> "getblockheader",
     checksHandle |-> TRUE, type |-> "object",
     onReject |-> "return", catchValue |-> Str(""), logs |-> TRUE, norm |-> "orNull"],
    [name |-> "getBlockStatsByHeight", rpcMethod |-> "getblockstats",
     checksHandle |-> TRUE, type |-> "object",
     onReject |-> "return", catchValue |-> Null, logs |-> TRUE, norm |-> "orNull"],
    [name |-> "getBlockStatsByHash", rpcMethod |-> "getblockstats",
     checksHandle |-> TRUE, type |-> "object",
     onReject |-> "return", catchValue |-> Null, logs |-> TRUE, norm |-> "orNull"],
    [name |-> "getChainTips", rpcMethod |-> "getchaintips",
     checksHandle |-> TRUE, type |-> "array",
     onReject |-> "return", catchValue |-> Null, logs |-> TRUE, norm |-> "orNull"],
    [name |-> "getChainTxStats", rpcMethod |-> "getchaintxstats",
     checksHandle |-> TRUE, type |-> "object",
     onReject |-> "return", catchValue |-> Null, logs |-> TRUE, norm |-> "orNull"],
    [name |-> "getDifficulty", rpcMethod |-> "getdifficulty",
     checksHandle |-> TRUE, type |-> "number",
     onReject |-> "return", catchValue |-> Num(0), logs |-> TRUE, norm |-> "nullish"],
    [name |-> "getMempoolAncestors", rpcMethod |-> "getmempoolancestors",
     checksHandle |-> TRUE, type |-> "object",
     onReject |-> "return", catchValue |-> Null, logs |-> TRUE, norm |-> "orNull"],
    [name |-> "getMempoolDescendants", rpcMethod |-> "getmempooldescendants",
     checksHandle |-> TRUE, type |-> "object",
     onReject |-> "return", catchValue |-> Null, logs |-> TRUE, norm |-> "orNull"],
    [name |-> "getMempoolEntry", rpcMethod |-> "getmempoolentry",
     checksHandle |-> TRUE, type |-> "object",
     onReject |-> "return", catchValue |-> Null, logs |-> TRUE, norm |-> "orNull"],
    [name |-> "getMempoolInfo", rpcMethod |-> "getmempoolinfo",
     checksHandle |-> TRUE, type |-> "object",
     onReject |-> "return", catchValue |-> Null, logs |-> TRUE, norm |-> "orNull"],
    [name |-> "getRawMempool", rpcMethod |-> "getrawmempool",
     checksHandle |-> TRUE, type |-> "object",
     onReject |-> "return", catchValue |-> Null, logs |-> TRUE, norm |-> "orNull"],
    [name |-> "getTxOut", rpcMethod |-> "gettxout",
     checksHandle |-> TRUE, type |-> "object",
     onReject |-> "return", catchValue |-> Null, logs |-> TRUE, norm |-> "orNull"],
    [name |-> "getTxOutProof", rpcMethod |-> "gettxoutproof",
     checksHandle |-> TRUE, type |-> "string",
     onReject |-> "return", catchValue |-> Str(""), logs |-> TRUE, norm |-> "orNull"],
    [name |-> "getTxOutSetInfo", rpcMethod |-> "gettxoutsetinfo",
     checksHandle |-> TRUE, type |-> "object",
     onReject |-> "return", catchValue |-> Null, logs |-> TRUE, norm |-> "orNull"],
    [name |-> "preciousBlock", rpcMethod |-> "preciousblock",
     checksHandle |-> TRUE, type |-> "void",
     onReject |-> "return", catchValue |-> Undefined, logs |-> TRUE, norm |-> "void"],
    [name |-> "pruneBlockChain", rpcMethod |-> "pruneblockchain",
     checksHandle |-> TRUE, type |-> "number",
     onReject |-> "return", catchValue |-> Num(0), logs |-> TRUE, norm |-> "nullish"],
    [name |-> "saveMempool", rpcMethod |-> "savemempool",
     checksHandle |-> TRUE, type |-> "void",
     onReject |-> "return", catchValue |-> Undefined, logs |-> TRUE, norm |-> "void"],
    [name |-> "verifyChain", rpcMethod |-> "verifychain",
     checksHandle |-> TRUE, type |-> "boolean",
     onReject |-> "return", catchValue |-> Bool(FALSE), logs |-> TRUE, norm |-> "nullish"],
    [name |-> "verifyTxOutProof", rpcMethod |-> "verifytxoutproof",
     checksHandle |-> TRUE, type |-> "array",
     onReject |-> "return", catchValue |-> Arr(0), logs |-> TRUE, norm |-> "orNull"]
  }

GenericMethods == {r.name : r \in MethodTable}
\* The two methods that use the cached chain info.
CacheMethods == {"getChainInfo", "getBlockHeight"}
Methods == GenericMethods \cup CacheMethods
PolicyOf(m) == CHOOSE r \in MethodTable : r.name = m

\* (a method returning x where the source returns x || null)
OrNullForgotten(x) == x
\* x || null
OrNull(x) == IF Truthy(x) THEN x ELSE Null
\* (x || null where the source has x ?? null)
NullishAsFalsy(x) == IF Truthy(x) THEN x ELSE Null
\* x ?? null
NullishToNull(x) == IF Nullish(x) THEN Null ELSE x
\* x == '' ? null : x
EmptyStringToNull(x) == IF LooseEqualsEmptyString(x) THEN Null ELSE x

\* The return statement of a forwarding method, applied to the awaited value.
Returned(norm, x) ==
  CASE norm = "orNull" -> OrNull(x)
    [] norm = "nullish" -> NullishToNull(x)
    [] norm = "emptyString" -> EmptyStringToNull(x)
    [] norm = "asIs" -> x
    [] OTHER -> Undefined

\* this.error(...): the number of log entries it emits.
error(debug) == IF debug THEN 1 ELSE 0

\* An answer of the transport to one invocation.
Resolve(v) == [kind |-> "resolve", value |-> v]
Reject(e) == [kind |-> "reject", value |-> e]
NoAnswer == [kind |-> "none", value |-> Undefined]
Answers(type) ==
  {Resolve(v) : v \in TransportValues(type)} \cup {Reject(e) : e \in TransportErrors}
ChainAnswers ==
  {Resolve(v) : v \in {Null} \cup ChainInfos} \cup {Reject(e) : e \in TransportErrors}

\* (a catch handler that returns where the source's handler rethrows)
AwaitedSwallowing(p, answer, debug) ==
  IF answer.kind = "resolve"
  THEN [settled |-> "resolved", value |-> answer.value, logged |-> 0]
  ELSE [settled |-> "resolved", value |-> Null, logged |-> error(debug)]

\* (catch handlers that all rethrow)
AwaitedRethrowing(p, answer, debug) ==
  IF answer.kind = "resolve"
  THEN [settled |-> "resolved", value |-> answer.value, logged |-> 0]
  ELSE [settled |-> "rejected", value |-> answer.value, logged |-> error(debug)]

\* await this.rpc.<procedure>(...).catch(handler): how the awaited promise
\* settles, its value, and the log entries the handler emits.
Awaited(p, answer, debug) ==
  CASE answer.kind = "resolve" ->
         [settled |-> "resolved", value |-> answer.value, logged |-> 0]
    [] answer.kind = "reject" /\ p.onReject = "return" ->
         [settled |-> "resolved", value |-> p.catchValue, logged |-> error(debug)]
    [] answer.kind = "reject" /\ p.onReject = "rethrow" ->
         [settled |-> "rejected", value |-> answer.value,
          logged |-> IF p.logs THEN error(debug) ELSE 0]
    [] OTHER ->
         [settled |-> "rejected", value |-> answer.value, logged |-> 0]

\* A forwarding method from the answer of the transport to its own outcome.
MethodResult(p, answer, debug) ==
  LET a == Awaited(p, answer, debug)
  IN  IF a.settled = "rejected"
      THEN [outcome |-> "rejected", value |-> a.value, logged |-> a.logged]
      ELSE [outcome |-> "resolved", value |-> Returned(p.norm, a.value),
            logged |-> a.logged]

\* this.rpc = null
NoClient == 0
\* (a method without the check of the handle)
RpcCheckForgotten(handle) == FALSE
\* if (!this.rpc) throw new Error('RPC not initialized')
RpcNotInitialized(handle) == handle = NoClient
\* (init without the check of the handle)
InitCheckForgotten(handle) == FALSE
\* if (this.rpc) throw new Error('RPC already initialized')
RpcAlreadyInitialized(handle) == handle # NoClient

\* The BasicBlockInfo getChainInfo derives from a chain info.
BasicBlockInfo(info) ==
  [t |-> "object", blockHeight |-> info.blocks, blockHash |-> info.bestblockhash]

\* (getChainInfo storing the chain info without deriving the block info)
StoreChainInfoOnly(cache, v) ==
  [blockchainInfo |-> v, currentBlockInfo |-> cache.currentBlockInfo]

\* The cache after getChainInfo has been answered v.
StoreChainInfo(cache, v) ==
  [blockchainInfo |-> v,
   currentBlockInfo |-> IF Truthy(v) THEN BasicBlockInfo(v) ELSE cache.currentBlockInfo]

\* (a purge that clears the chain info and leaves the block info)
PurgeCallbackKeepingBlockInfo(cache) ==
  [blockchainInfo |-> Null, currentBlockInfo |-> cache.currentBlockInfo]

\* The cache after the callback of the purge timer.
PurgeCallback(cache) == [blockchainInfo |-> Null, currentBlockInfo |-> Null]

(***************************************************************************)
(* The state.                                                              *)
(***************************************************************************)
VARIABLES
  rpc,               \* this.rpc: NoClient (null) or the RPCClient, numbered
                     \* by its construction since the last destroy()
  blockchainInfo,    \* this.blockchainInfo
  currentBlockInfo,  \* this.currentBlockInfo
  purgeInterval,     \* this.purgeInterval: "active", or "cleared" by clearInterval
  enableDebug,       \* the constructor's enableDebug
  exited,            \* process.exit(1) was called
  inflight,          \* the transport invocations awaiting their answer: a bag
                     \* of the methods that made them ("init" for init's probe)
  workload,          \* the RPC methods the client program calls
  clients,           \* RPCClients constructed since construction or the last destroy()
  ticked,            \* the purge timer has ticked
  cachedBeforeTick,  \* currentBlockInfo holds a value stored before the most
                     \* recent tick of the purge timer
  last               \* what the last step did, as its caller observes it

vars == <<rpc, blockchainInfo, currentBlockInfo, purgeInterval, enableDebug,
          exited, inflight, workload, clients, ticked, cachedBeforeTick, last>>

Cache == [blockchainInfo |-> blockchainInfo, currentBlockInfo |-> currentBlockInfo]

(***************************************************************************)
(* The arguments of a call and what the method passes to the transport.    *)
(* An object built by a method is the set of its <<key, value>> entries.   *)
(***************************************************************************)
\* The members of the enum BitcoinVerbosity that the source names.
BitcoinVerbosity ==
  [NONE |-> [t |-> "enum", member |-> "NONE"],
   RAW |-> [t |-> "enum", member |-> "RAW"]]

\* The methods with one optional argument that goes into an object under a
\* key, and the methods with a verbosity argument.
OptionalKey ==
  [getNodeAddresses |-> "count", upgradeWallet |-> "version",
   getDeploymentInfo |-> "blockhash", getIndexInfo |-> "index_name"]
VerbosityMethods ==
  {"getRawTransaction", "getRawTransactions", "getRawMempool",
   "getMempoolAncestors", "getMempoolDescendants"}

\* The secrets a caller may hand over: the privateKey of importPrivateKey,
\* the passphrase of migrateWallet, the BITCOIND_PASSWORD of init.
Secrets == {Str("s3cret-A"), Str("s3cret-B")}

\* The RPCConfig values init and getRpcConfigFromBlockchainConfig are called
\* with.
RPCConfigs ==
  [BITCOIND_HOST : {"localhost"}, BITCOIND_PORT : {"8332"},
   BITCOIND_USERNAME : {"user"}, BITCOIND_PASSWORD : Secrets]

\* The RPCIniOptions that getRpcConfigFromBlockchainConfig(rpcInfo) returns.
RPCIniOptions(rpcInfo) ==
  [t |-> "object",
   url |-> "http://" \o rpcInfo.BITCOIND_HOST,
   port |-> rpcInfo.BITCOIND_PORT,
   user |-> rpcInfo.BITCOIND_USERNAME,
   pass |-> rpcInfo.BITCOIND_PASSWORD]

\* The arguments the client program calls a method with: the optional
\* argument (undefined when left out; walletName for migrateWallet), for
\* getRawTransaction blockHash, and the secret among the arguments, if any.
\* The required arguments are fixed.
NoArguments ==
  [optional |-> Undefined, blockHash |-> Undefined, secret |-> Undefined]
Arguments(m) ==
  CASE m \in {"getNodeAddresses", "upgradeWallet"} ->
         [optional : {Undefined, Num(0), Num(1)}, blockHash : {Undefined},
          secret : {Undefined}]
    [] m \in {"getDeploymentInfo", "getIndexInfo"} ->
         [optional : {Undefined, Str(""), Str("00ab")}, blockHash : {Undefined},
          secret : {Undefined}]
    [] m = "getRawTransaction" ->
         [optional : {Undefined, BitcoinVerbosity.NONE, BitcoinVerbosity.RAW},
          blockHash : {Undefined, Str(""), Str("00ab")}, secret : {Undefined}]
    [] m \in VerbosityMethods \ {"getRawTransaction"} ->
         [optional : {Undefined, BitcoinVerbosity.NONE, BitcoinVerbosity.RAW},
          blockHash : {Undefined}, secret : {Undefined}]
    [] m = "importPrivateKey" ->
         [optional : {Undefined}, blockHash : {Undefined}, secret : Secrets]
    [] m = "migrateWallet" ->
         [optional : {Undefined, Str("w")}, blockHash : {Undefined},
          secret : Secrets]
    [] OTHER -> {NoArguments}

\* x ? { key: x } : {}
OptionalParam(key, x) == IF Truthy(x) THEN {<<key, x>>} ELSE {}

\* (a verbosity argument that defaults to RAW)
VerboseFlagDefaultingToRaw(verbose) ==
  Bool(verbose # BitcoinVerbosity.RAW /\ verbose # Undefined)
\* verbose !== BitcoinVerbosity.RAW
VerboseFlag(verbose) == Bool(verbose # BitcoinVerbosity.RAW)

\* The arguments a method passes to the procedure of the transport, in
\* order.  The methods not named here build theirs from required arguments.
Passed(m, args) ==
  CASE m \in DOMAIN OptionalKey ->
         <<OptionalParam(OptionalKey[m], args.optional)>>
    [] m = "getRawTransaction" ->
         <<{<<"txid", Str("tx")>>, <<"verbose", VerboseFlag(args.optional)>>}
             \cup (IF Truthy(args.blockHash)
                   THEN {<<"blockhash", args.blockHash>>}
                   ELSE {})>>
    [] m = "getRawTransactions" ->
         <<Arr(2), VerboseFlag(args.optional)>>
    [] m \in {"getMempoolAncestors", "getMempoolDescendants"} ->
         <<{<<"txid", Str("tx")>>, <<"verbose", VerboseFlag(args.optional)>>}>>
    [] m = "getRawMempool" ->
         <<{<<"verbose", VerboseFlag(args.optional)>>}>>
    [] m = "importPrivateKey" ->
         <<{<<"privkey", args.secret>>, <<"label", Str("label")>>,
            <<"rescan", Undefined>>}, Undefined>>
    [] m = "migrateWallet" ->
         <<{<<"wallet_name", args.optional>>, <<"passphrase", args.secret>>}>>
    [] OTHER -> <<Obj("required")>>

(***************************************************************************)
(* The messages the facade logs.  A message is the tuple of the parts of   *)
(* its template literal: the literal text and the interpolated values.     *)
(***************************************************************************)
\* (debug messages that interpolate the private key and the passphrase)
DebugTextWithSecret(m, args) ==
  CASE m = "importPrivateKey" -> <<Str("importPrivateKey "), args.secret>>
    [] m = "migrateWallet" -> <<Str("migrateWallet "), args.secret>>
    [] OTHER -> <<Str(m)>>

\* The text a method gives to debugMessage.  importPrivateKey interpolates
\* its label and migrateWallet its walletName || 'default'; the text of the
\* other methods is their name, followed by arguments that are fixed here.
DebugText(m, args) ==
  CASE m = "importPrivateKey" -> <<Str("importPrivateKey "), Str("label")>>
    [] m = "migrateWallet" ->
         <<Str("migrateWallet "),
           IF Truthy(args.optional) THEN args.optional ELSE Str("default")>>
    [] OTHER -> <<Str(m)>>

\* this.debugMessage(message): what it logs.
debugMessage(message, debug) == IF debug THEN <<message>> ELSE <<>>

\* The debug messages of a call of a method: init, destroy,
\* getRpcConfigFromBlockchainConfig and getBlocksInfoWithTransactionData call
\* debugMessage nowhere, the other methods first thing.
SilentMethods ==
  {"init", "destroy", "getRpcConfigFromBlockchainConfig",
   "getBlocksInfoWithTransactionData"}
DebugMessages(m, args, debug) ==
  IF m \in SilentMethods THEN <<>> ELSE debugMessage(DebugText(m, args), debug)

\* The text a catch handler, or testRPC, gives to this.error: literal text
\* and the error caught (testRPC: its message, or no error when the probe
\* resolved to no chain info).
ErrorText(m, answer) ==
  CASE m = "init" /\ answer.kind = "reject" ->
         <<Str("RPC errored. Please check your configuration. "),
           Str(answer.value.message)>>
    [] m = "init" -> <<Str("RPC errored. Please check your configuration.")>>
    [] m = "importPrivateKey" ->
         <<Str("Error importing private key: "), answer.value>>
    [] m = "migrateWallet" -> <<Str("Error migrating wallet: "), answer.value>>
    [] OTHER -> <<Str("Error: "), answer.value>>

\* The messages of a step that called this.error logged times.
ErrorMessages(m, answer, logged) ==
  IF logged = 0 THEN <<>> ELSE <<ErrorText(m, answer)>>

\* A step as observed: the operation, the method, the handle when the step
\* began, the transport invocations it started, how the method's promise
\* stands after it with its value, the transport's answer the step received,
\* and the error log entries it emitted; and, of a call, its arguments and
\* what it passed to the transport (nothing: the empty tuple); and the
\* messages the step logged, in order.
Event(op, method, handle, invoked, outcome, value, answer, logged) ==
  [op |-> op, method |-> method, handle |-> handle, invoked |-> invoked,
   outcome |-> outcome, value |-> value, answer |-> answer, logged |-> logged,
   args |-> NoArguments, passed |-> <<>>, messages |-> <<>>]

InFlight == BagCardinality(inflight)
\* (a method that calls the procedure of the transport twice)
InvokeTwice(m) == inflight' = inflight (+) SetToBag({m}) (+) SetToBag({m})
\* this.rpc.<procedure>(...) is called: one more invocation awaits its answer.
Invoke(m) == inflight' = inflight (+) SetToBag({m})
\* The transport answers one invocation.
Answered(m) == inflight' = inflight (-) SetToBag({m})

\* new BitcoinRPC(cacheClearInterval, enableDebug): the constructor starts the
\* purge timer.  Besides init() and destroy(), the client program calls
\* either the two methods that use the cache, or one forwarding method, or
\* getRpcConfigFromBlockchainConfig: the forwarding methods read the handle
\* and enableDebug and write no field, so that calls of different methods do
\* not affect one another.
Init ==
  /\ rpc = NoClient
  /\ blockchainInfo = Null
  /\ currentBlockInfo = Null
  /\ purgeInterval = "active"
  /\ enableDebug \in BOOLEAN
  /\ exited = FALSE
  /\ inflight = EmptyBag
  /\ workload \in {CacheMethods} \cup {{m} : m \in GenericMethods}
                    \cup {{"getRpcConfigFromBlockchainConfig"}}
  /\ clients = 0
  /\ ticked = FALSE
  /\ cachedBeforeTick = FALSE
  /\ last = Event("construct", "", NoClient, 0, "none", Undefined, NoAnswer, 0)

(***************************************************************************)
(* The operations.                                                         *)
(***************************************************************************)
\* (a destroy that leaves the purge timer running)
destroyKeepingTimer ==
  /\ ~exited
  /\ rpc' = NoClient
  /\ blockchainInfo' = Null
  /\ currentBlockInfo' = Null
  /\ clients' = 0
  /\ cachedBeforeTick' = FALSE
  /\ last' = Event("destroy", "", rpc, 0, "none", Undefined, NoAnswer, 0)
  /\ UNCHANGED <<purgeInterval, enableDebug, exited, inflight, workload, ticked>>

\* destroy(): clearInterval on the purge timer, then the handle and both
\* cache fields are set to null.
destroy ==
  /\ ~exited
  /\ purgeInterval' = "cleared"
  /\ rpc' = NoClient
  /\ blockchainInfo' = Null
  /\ currentBlockInfo' = Null
  /\ clients' = 0
  /\ cachedBeforeTick' = FALSE
  /\ last' = Event("destroy", "", rpc, 0, "none", Undefined, NoAnswer, 0)
  /\ UNCHANGED <<enableDebug, exited, inflight, workload, ticked>>

\* The callback purgeCachedData gave to setInterval.
purgeTick ==
  /\ ~exited
  /\ purgeInterval = "active"
  /\ blockchainInfo' = PurgeCallback(Cache).blockchainInfo
  /\ currentBlockInfo' = PurgeCallback(Cache).currentBlockInfo
  /\ ticked' = TRUE
  /\ cachedBeforeTick' = (currentBlockInfo' # Null)
  /\ last' = Event("purge", "", rpc, 0, "none", Undefined, NoAnswer, 0)
  /\ UNCHANGED <<rpc, purgeInterval, enableDebug, exited, inflight, workload, clients>>

\* getRpcConfigFromBlockchainConfig(rpcInfo), which returns at once.
getRpcConfigFromBlockchainConfig ==
  /\ ~exited
  /\ "getRpcConfigFromBlockchainConfig" \in workload
  /\ \E rpcInfo \in RPCConfigs :
       last' = [Event("call", "getRpcConfigFromBlockchainConfig", rpc, 0,
                      "returned", RPCIniOptions(rpcInfo), NoAnswer, 0)
                EXCEPT !.args = [NoArguments EXCEPT
                                   !.secret = rpcInfo.BITCOIND_PASSWORD]]
  /\ UNCHANGED <<rpc, blockchainInfo, currentBlockInfo, purgeInterval, enableDebug,
                 exited, inflight, workload, clients, ticked, cachedBeforeTick>>

\* init(rpcInfo) up to the await of its probe (the RPCClient is constructed
\* from getRpcConfigFromBlockchainConfig(rpcInfo); testRPC calls getChainInfo,
\* which finds the handle just set and invokes getblockchaininfo).
init ==
  /\ ~exited
  /\ \E rpcInfo \in RPCConfigs :
       LET args == [NoArguments EXCEPT !.secret = rpcInfo.BITCOIND_PASSWORD]
       IN  IF RpcAlreadyInitialized(rpc)
           THEN /\ last' = [Event("call", "init", rpc, 0, "rejected",
                                  Err("RPC already initialized"), NoAnswer, 0)
                             EXCEPT !.args = args]
                /\ UNCHANGED <<rpc, clients, inflight>>
           ELSE /\ clients < MaxClients
                /\ InFlight < MaxInFlight
                /\ clients' = clients + 1
                /\ rpc' = clients + 1
                /\ Invoke("init")
                /\ last' = [Event("call", "init", rpc, 1, "pending", Undefined,
                                  NoAnswer, 0)
                             EXCEPT !.args = args,
                                    !.passed = <<RPCIniOptions(rpcInfo)>>]
  /\ UNCHANGED <<blockchainInfo, currentBlockInfo, purgeInterval, enableDebug,
                 exited, workload, ticked, cachedBeforeTick>>

\* A forwarding method up to its await: the handle check, the parameters,
\* the invocation.
call(m) ==
  /\ ~exited
  /\ m \in workload \cap GenericMethods
  /\ \E args \in Arguments(m) :
       IF PolicyOf(m).checksHandle /\ RpcNotInitialized(rpc)
       THEN /\ last' = [Event("call", m, rpc, 0, "rejected",
                              Err("RPC not initialized"), NoAnswer, 0)
                         EXCEPT !.args = args,
                                !.messages = DebugMessages(m, args, enableDebug)]
            /\ UNCHANGED inflight
       ELSE /\ InFlight < MaxInFlight
            /\ Invoke(m)
            /\ last' = [Event("call", m, rpc, 1, "pending", Undefined, NoAnswer, 0)
                         EXCEPT !.args = args, !.passed = Passed(m, args),
                                !.messages = DebugMessages(m, args, enableDebug)]
  /\ UNCHANGED <<rpc, blockchainInfo, currentBlockInfo, purgeInterval, enableDebug,
                 exited, workload, clients, ticked, cachedBeforeTick>>

\* (a forwarding method that drops the handle when its transport call fails)
respondDroppingHandle(m, answer) ==
  /\ ~exited
  /\ m \in GenericMethods
  /\ BagIn(m, inflight)
  /\ answer \in Answers(PolicyOf(m).type)
  /\ Answered(m)
  /\ rpc' = IF answer.kind = "reject" THEN NoClient ELSE rpc
  /\ LET r == MethodResult(PolicyOf(m), answer, enableDebug)
     IN  last' = Event("response", m, rpc, 0, r.outcome, r.value, answer, r.logged)
  /\ UNCHANGED <<blockchainInfo, currentBlockInfo, purgeInterval, enableDebug,
                 exited, workload, clients, ticked, cachedBeforeTick>>

\* The transport answers a forwarding method, which settles.
respond(m, answer) ==
  /\ ~exited
  /\ m \in GenericMethods
  /\ BagIn(m, inflight)
  /\ answer \in Answers(PolicyOf(m).type)
  /\ Answered(m)
  /\ LET r == MethodResult(PolicyOf(m), answer, enableDebug)
     IN  last' = [Event("response", m, rpc, 0, r.outcome, r.value, answer, r.logged)
                  EXCEPT !.messages = ErrorMessages(m, answer, r.logged)]
  /\ UNCHANGED <<rpc, blockchainInfo, currentBlockInfo, purgeInterval, enableDebug,
                 exited, workload, clients, ticked, cachedBeforeTick>>

\* getChainInfo() up to its await.
getChainInfo ==
  /\ ~exited
  /\ "getChainInfo" \in workload
  /\ LET logs == DebugMessages("getChainInfo", NoArguments, enableDebug)
     IN  IF RpcNotInitialized(rpc)
         THEN /\ last' = [Event("call", "getChainInfo", rpc, 0, "rejected",
                                Err("RPC not initialized"), NoAnswer, 0)
                           EXCEPT !.messages = logs]
              /\ UNCHANGED inflight
         ELSE /\ InFlight < MaxInFlight
              /\ Invoke("getChainInfo")
              /\ last' = [Event("call", "getChainInfo", rpc, 1, "pending",
                                Undefined, NoAnswer, 0)
                           EXCEPT !.messages = logs]
  /\ UNCHANGED <<rpc, blockchainInfo, currentBlockInfo, purgeInterval, enableDebug,
                 exited, workload, clients, ticked, cachedBeforeTick>>

\* getBlockHeight() up to its await, or to its return when the cache holds a
\* block info.
getBlockHeight ==
  /\ ~exited
  /\ "getBlockHeight" \in workload
  /\ LET logs == DebugMessages("getBlockHeight", NoArguments, enableDebug)
     IN  IF RpcNotInitialized(rpc)
         THEN /\ last' = [Event("call", "getBlockHeight", rpc, 0, "rejected",
                                Err("RPC not initialized"), NoAnswer, 0)
                           EXCEPT !.messages = logs]
              /\ UNCHANGED inflight
         ELSE IF Truthy(currentBlockInfo)
         THEN /\ last' = [Event("call", "getBlockHeight", rpc, 0, "resolved",
                                currentBlockInfo, NoAnswer, 0)
                           EXCEPT !.messages = logs]
              /\ UNCHANGED inflight
         ELSE /\ InFlight < MaxInFlight
              /\ Invoke("getBlockHeight")
              /\ last' = [Event("call", "getBlockHeight", rpc, 1, "pending",
                                Undefined, NoAnswer, 0)
                           EXCEPT !.messages =
                             logs \o DebugMessages("getChainInfo", NoArguments,
                                                   enableDebug)]
  /\ UNCHANGED <<rpc, blockchainInfo, currentBlockInfo, purgeInterval, enableDebug,
                 exited, workload, clients, ticked, cachedBeforeTick>>

\* (a getChainInfo that clears blockchainInfo when the transport rejects)
ChainInfoFetchedClearing(cache, answer) ==
  IF answer.kind = "resolve"
  THEN StoreChainInfo(cache, answer.value)
  ELSE [blockchainInfo |-> Null, currentBlockInfo |-> cache.currentBlockInfo]

\* The cache after getChainInfo's await: the assignment takes place only if
\* the awaited promise resolves.
ChainInfoFetched(cache, answer) ==
  IF answer.kind = "resolve" THEN StoreChainInfo(cache, answer.value) ELSE cache

\* (a testRPC without its try and catch)
ResumedWithoutCatch(m, answer, stored, debug) ==
  CASE answer.kind = "reject" ->
         [outcome |-> "rejected", value |-> answer.value, logged |-> 0]
    [] m = "getChainInfo" ->
         [outcome |-> "resolved", value |-> stored.blockchainInfo, logged |-> 0]
    [] m = "getBlockHeight" ->
         [outcome |-> "resolved", value |-> stored.currentBlockInfo, logged |-> 0]
    [] m = "init" /\ Truthy(stored.blockchainInfo) ->
         [outcome |-> "resolved", value |-> Undefined, logged |-> 0]
    [] OTHER ->
         [outcome |-> "exit", value |-> Num(1), logged |-> error(debug)]

\* (a testRPC that also ends the process when the probe rejects)
ResumedExitingOnReject(m, answer, stored, debug) ==
  CASE answer.kind = "reject" /\ m # "init" ->
         [outcome |-> "rejected", value |-> answer.value, logged |-> 0]
    [] answer.kind = "resolve" /\ m = "getChainInfo" ->
         [outcome |-> "resolved", value |-> stored.blockchainInfo, logged |-> 0]
    [] answer.kind = "resolve" /\ m = "getBlockHeight" ->
         [outcome |-> "resolved", value |-> stored.currentBlockInfo, logged |-> 0]
    [] answer.kind = "resolve" /\ m = "init" /\ Truthy(stored.blockchainInfo) ->
         [outcome |-> "resolved", value |-> Undefined, logged |-> 0]
    [] OTHER ->
         [outcome |-> "exit", value |-> Num(1), logged |-> error(debug)]

\* How the caller of getChainInfo goes on once getChainInfo has returned
\* stored.blockchainInfo or thrown: the client's call (m = "getChainInfo")
\* settles as getChainInfo did, getBlockHeight returns the block info or
\* rethrows, and testRPC within init catches and logs a rejection, and logs
\* and calls process.exit(1) when there is no chain info.
Resumed(m, answer, stored, debug) ==
  CASE answer.kind = "reject" /\ m = "init" ->
         [outcome |-> "resolved", value |-> Undefined, logged |-> error(debug)]
    [] answer.kind = "reject" /\ m # "init" ->
         [outcome |-> "rejected", value |-> answer.value, logged |-> 0]
    [] answer.kind = "resolve" /\ m = "getChainInfo" ->
         [outcome |-> "resolved", value |-> stored.blockchainInfo, logged |-> 0]
    [] answer.kind = "resolve" /\ m = "getBlockHeight" ->
         [outcome |-> "resolved", value |-> stored.currentBlockInfo, logged |-> 0]
    [] answer.kind = "resolve" /\ m = "init" /\ Truthy(stored.blockchainInfo) ->
         [outcome |-> "resolved", value |-> Undefined, logged |-> 0]
    [] OTHER ->
         [outcome |-> "exit", value |-> Num(1), logged |-> error(debug)]

\* The transport answers a getblockchaininfo invocation: getChainInfo resumes
\* and stores the answer or throws, and then its caller resumes: the client
\* (m = "getChainInfo"), getBlockHeight, or testRPC within init.
answerChainInfo(m, answer) ==
  /\ ~exited
  /\ m \in CacheMethods \cup {"init"}
  /\ BagIn(m, inflight)
  /\ answer \in ChainAnswers
  /\ Answered(m)
  /\ LET stored == ChainInfoFetched(Cache, answer)
         r == Resumed(m, answer, stored, enableDebug)
     IN  /\ blockchainInfo' = stored.blockchainInfo
         /\ currentBlockInfo' = stored.currentBlockInfo
         /\ cachedBeforeTick' = IF answer.kind = "resolve" /\ Truthy(answer.value)
                                THEN FALSE
                                ELSE cachedBeforeTick
         /\ last' = [Event("response", m, rpc, 0, r.outcome, r.value, answer,
                            r.logged)
                      EXCEPT !.messages = ErrorMessages(m, answer, r.logged)]
         /\ exited' = (r.outcome = "exit")
  /\ UNCHANGED <<rpc, purgeInterval, enableDebug, workload, clients, ticked>>

Next ==
  \/ destroy
  \/ purgeTick
  \/ init
  \/ getRpcConfigFromBlockchainConfig
  \/ \E m \in GenericMethods : call(m)
  \/ \E m \in GenericMethods : \E answer \in Answers(PolicyOf(m).type) : respond(m, answer)
  \/ getChainInfo
  \/ getBlockHeight
  \/ \E m \in CacheMethods \cup {"init"} : \E answer \in ChainAnswers : answerChainInfo(m, answer)

Spec == Init /\ [][Next]_vars

\* The event loop runs the purge timer's callback while the timer is active.
FairSpec == Spec /\ WF_vars(purgeTick)

(***************************************************************************)
(* The claims.                                                             *)
(***************************************************************************)
\* The methods that return nothing.
VoidMethods ==
  {"sendMsgToPeer", "newKeypool", "importPrivateKey", "invalidateBlock",
   "reconsiderBlock", "preciousBlock", "saveMempool"}
ValueMethods == Methods \ VoidMethods

\* C1: a transport invocation is started only with the handle set, and a
\* call of any async RPC method (init is none) while the handle is null is
\* rejected with 'RPC not initialized' and starts no invocation.
C1_NoInvocationWithoutHandle ==
  /\ (last.op = "call" /\ last.invoked > 0) => rpc # NoClient
  /\ (last.op = "call" /\ last.method \in Methods /\ last.handle = NoClient) =>
       /\ last.outcome = "rejected"
       /\ last.value = Err("RPC not initialized")
       /\ last.invoked = 0

\* A forwarding method called after destroy() is rejected.
C1_Witness ==
  /\ last.op = "call"
  /\ last.method \in GenericMethods
  /\ last.handle = NoClient
  /\ purgeInterval = "cleared"
  /\ last.outcome = "rejected"

\* C2: at most one RPCClient is constructed between construction (or a
\* destroy()) and the next destroy(); init() with the handle set is rejected
\* with 'RPC already initialized' and leaves the handle and the cache alone.
C2_InitOnce ==
  /\ [](clients <= 1)
  /\ []((last.op = "call" /\ last.method = "init" /\ last.handle # NoClient) =>
          /\ last.outcome = "rejected"
          /\ last.value = Err("RPC already initialized")
          /\ last.invoked = 0)
  /\ [][(last'.op = "call" /\ last'.method = "init" /\ last'.handle # NoClient) =>
          UNCHANGED <<rpc, blockchainInfo, currentBlockInfo, clients>>]_vars

\* A second init() is rejected while the probe of the first is in flight.
C2_Witness ==
  /\ last.op = "call"
  /\ last.method = "init"
  /\ last.outcome = "rejected"
  /\ BagIn("init", inflight)
  /\ clients = 1

\* C3: whenever blockchainInfo or currentBlockInfo is not null, both are
\* eventually null again (as they are once the purge timer has ticked), for
\* as long as the process runs.
C3_CacheEvicted ==
  (~exited /\ (blockchainInfo # Null \/ currentBlockInfo # Null))
    ~> (exited \/ (blockchainInfo = Null /\ currentBlockInfo = Null))

\* The value-returning methods whose catch handler does not rethrow.
SwallowingValueMethods ==
  ValueMethods \ {"estimateSmartFee", "getChainInfo", "getBlockHeight",
                  "getAddressByLabel", "sendRawTransaction"}

\* C4 as stated: a value-returning method that swallows the transport's
\* rejection resolves to null.
C4_SwallowedIsNull ==
  (last.op = "response" /\ last.method \in SwallowingValueMethods
     /\ last.answer.kind = "reject") =>
       (last.outcome = "resolved" /\ last.value = Null)

\* What a swallowing method resolves to when the transport rejects.
C4_Sentinel(m) ==
  CASE m \in {"getBlockCount", "getDifficulty", "pruneBlockChain"} -> Num(0)
    [] m = "verifyChain" -> Bool(FALSE)
    [] m \in {"getBlockHashes", "listWallets", "generateToAddress",
              "verifyTxOutProof"} -> Arr(0)
    [] OTHER -> Null

\* C4 as amended: a value-returning method that swallows the transport's
\* rejection resolves to null, except that getBlockCount, getDifficulty and
\* pruneBlockChain resolve to 0, verifyChain to false, and getBlockHashes,
\* listWallets, generateToAddress and verifyTxOutProof to an empty array.
C4_SwallowedIsSentinel ==
  (last.op = "response" /\ last.method \in SwallowingValueMethods
     /\ last.answer.kind = "reject") =>
       (last.outcome = "resolved" /\ last.value = C4_Sentinel(last.method))

\* getBlockHashes resolves to an empty array when the transport rejects.
C4_Witness ==
  /\ last.op = "response"
  /\ last.method = "getBlockHashes"
  /\ last.answer.kind = "reject"
  /\ last.value = Arr(0)

\* The methods the claim names as propagating.
PropagatingMethods ==
  {"sendMsgToPeer", "newKeypool", "invalidateBlock", "reconsiderBlock",
   "getAddressByLabel", "sendRawTransaction", "estimateSmartFee"}

\* C5: a propagating method rejects with the very value the transport
\* rejected with.
C5_Propagates ==
  (last.op = "response" /\ last.method \in PropagatingMethods
     /\ last.answer.kind = "reject") =>
       (last.outcome = "rejected" /\ last.value = last.answer.value)

\* sendRawTransaction rejects with the transport's error.
C5_Witness ==
  /\ last.op = "response"
  /\ last.method = "sendRawTransaction"
  /\ last.answer = Reject(Err("ECONNREFUSED"))
  /\ last.outcome = "rejected"
  /\ last.value = Err("ECONNREFUSED")

\* C6: a step that catches the transport's rejection without rethrowing it
\* emits an error log entry, whatever enableDebug is.
C6_SwallowedIsLogged ==
  (last.op = "response" /\ last.answer.kind = "reject" /\ last.outcome = "resolved") =>
    last.logged >= 1

\* C7: after getChainInfo() has completed with a chain info R, blockchainInfo
\* is R and currentBlockInfo is {blockHeight: R.blocks, blockHash:
\* R.bestblockhash}; and the cache changes only by a purge tick, destroy() or
\* the completion of a getChainInfo() (the client's, or the one getBlockHeight
\* or init awaits).
C7_CacheHoldsLastFetched ==
  /\ []((last.op = "response" /\ last.method = "getChainInfo"
           /\ last.answer.kind = "resolve" /\ last.answer.value # Null) =>
          /\ last.outcome = "resolved"
          /\ last.value = last.answer.value
          /\ blockchainInfo = last.answer.value
          /\ currentBlockInfo = [t |-> "object",
                                 blockHeight |-> last.answer.value.blocks,
                                 blockHash |-> last.answer.value.bestblockhash])
  /\ [][(blockchainInfo' # blockchainInfo \/ currentBlockInfo' # currentBlockInfo) =>
          \/ last'.op \in {"purge", "destroy"}
          \/ /\ last'.op = "response"
             /\ last'.method \in {"getChainInfo", "getBlockHeight", "init"}]_vars

\* getChainInfo() has completed with the chain info of block 2.
C7_Witness ==
  /\ last.op = "response"
  /\ last.method = "getChainInfo"
  /\ last.answer = Resolve(BlockchainInfo(2, "h2"))
  /\ blockchainInfo = BlockchainInfo(2, "h2")
  /\ currentBlockInfo.blockHeight = 2

\* C8: a block info getBlockHeight() resolves to was not stored before the
\* most recent tick of the purge timer.
C8_NothingServedAcrossTick ==
  (last.method = "getBlockHeight" /\ last.outcome = "resolved" /\ last.value # Null) =>
    ~cachedBeforeTick

\* getBlockHeight() is served from the cache after a tick of the purge timer.
C8_Witness ==
  /\ last.op = "call"
  /\ last.method = "getBlockHeight"
  /\ last.outcome = "resolved"
  /\ last.value # Null
  /\ ticked

\* The methods that return x || null, and those that return x ?? null.
OrNullMethods == {r.name : r \in {q \in MethodTable : q.norm = "orNull"}}
NullishMethods == {r.name : r \in {q \in MethodTable : q.norm = "nullish"}}

\* What C9 says of an answer the methods normalize.
C9_Normalized ==
  /\ (last.method \in OrNullMethods /\ ~Truthy(last.answer.value)) =>
       (last.outcome = "resolved" /\ last.value = Null)
  /\ (last.method \in NullishMethods /\ ~Truthy(last.answer.value)) =>
       /\ last.outcome = "resolved"
       /\ last.value = IF last.answer.value \in {Null, Undefined}
                       THEN Null
                       ELSE last.answer.value

\* C9 as stated: every value-returning method resolves to the truthy value
\* the transport resolved to; x || null makes null of a falsy one and x ?? null
\* of null and undefined only.
C9_PassThrough ==
  (last.op = "response" /\ last.method \in ValueMethods
     /\ last.answer.kind = "resolve") =>
       /\ Truthy(last.answer.value) =>
            (last.outcome = "resolved" /\ last.value = last.answer.value)
       /\ C9_Normalized

\* C9 as amended: every value-returning method but getBlockHeight resolves to
\* the truthy value R the transport resolved to, and getBlockHeight to
\* {blockHeight: R.blocks, blockHash: R.bestblockhash}; x || null makes null
\* of a falsy one and x ?? null of null and undefined only.
C9_PassThroughButBlockHeight ==
  (last.op = "response" /\ last.method \in ValueMethods
     /\ last.answer.kind = "resolve") =>
       /\ (Truthy(last.answer.value) /\ last.method # "getBlockHeight") =>
            (last.outcome = "resolved" /\ last.value = last.answer.value)
       /\ (Truthy(last.answer.value) /\ last.method = "getBlockHeight") =>
            /\ last.outcome = "resolved"
            /\ last.value = [t |-> "object",
                             blockHeight |-> last.answer.value.blocks,
                             blockHash |-> last.answer.value.bestblockhash]
       /\ C9_Normalized

\* getDifficulty passes a difficulty of 0 through.
C9_Witness ==
  /\ last.op = "response"
  /\ last.method = "getDifficulty"
  /\ last.answer = Resolve(Num(0))
  /\ last.value = Num(0)

\* C10: getBlockHeight() with a cached block info resolves to it and invokes
\* nothing; without one it makes one getblockchaininfo invocation, and
\* resolves to {blockHeight: R.blocks, blockHash: R.bestblockhash} when that
\* resolves to a chain info R, and to null when it resolves to null.
C10_ServedFromCache ==
  /\ (last.op = "call" /\ last.method = "getBlockHeight" /\ last.handle # NoClient) =>
       IF currentBlockInfo # Null
       THEN last.outcome = "resolved" /\ last.value = currentBlockInfo /\ last.invoked = 0
       ELSE last.outcome = "pending" /\ last.invoked = 1
  /\ (last.op = "response" /\ last.method = "getBlockHeight"
        /\ last.answer.kind = "resolve") =>
       /\ last.invoked = 0
       /\ last.outcome = "resolved"
       /\ last.value = IF last.answer.value # Null
                       THEN [t |-> "object",
                             blockHeight |-> last.answer.value.blocks,
                             blockHash |-> last.answer.value.bestblockhash]
                       ELSE Null

\* C11: getChainInfo() is never served from the cache and propagates
\* failures: a call with the handle set makes one more getblockchaininfo
\* invocation whatever the cache holds and awaits it; and when the invocation
\* that getChainInfo(), or getBlockHeight() on a cache miss, awaits rejects,
\* the call rejects with the same error, invokes nothing more, and leaves
\* blockchainInfo and currentBlockInfo as they were.
C11_NeverCachedAndPropagates ==
  /\ [][(last'.op = "call" /\ last'.method = "getChainInfo" /\ rpc # NoClient) =>
          /\ last'.outcome = "pending"
          /\ last'.invoked = 1
          /\ CopiesIn("getChainInfo", inflight') = CopiesIn("getChainInfo", inflight) + 1
          /\ BagCardinality(inflight') = BagCardinality(inflight) + 1]_vars
  /\ [][(/\ last'.op = "response"
         /\ last'.method \in {"getChainInfo", "getBlockHeight"}
         /\ last'.answer.kind = "reject") =>
          /\ last'.outcome = "rejected"
          /\ last'.value = last'.answer.value
          /\ BagCardinality(inflight') = BagCardinality(inflight) - 1
          /\ blockchainInfo' = blockchainInfo
          /\ currentBlockInfo' = currentBlockInfo]_vars

\* A getChainInfo() called while the cache held a chain info has invoked the
\* transport, the invocation has rejected, and the cache still holds the
\* chain info.
C11_Witness ==
  /\ last.op = "response"
  /\ last.method = "getChainInfo"
  /\ last.answer.kind = "reject"
  /\ last.outcome = "rejected"
  /\ blockchainInfo # Null
  /\ currentBlockInfo # Null

\* C12: init() never rejects because of a transport failure. Called with a
\* null handle it sets the handle and probes the node with one invocation;
\* when the probe rejects, init() resolves normally and the process goes on;
\* the completion of the probe leaves the handle as it is, and a handle that
\* is set is reset by destroy() only; while it is set, the RPC methods pass
\* their handle check and init() fails with 'RPC already initialized'.
C12_InitSurvivesTransportFailure ==
  /\ []((last.op = "call" /\ last.method = "init" /\ last.handle = NoClient) =>
          /\ rpc # NoClient
          /\ last.invoked = 1
          /\ last.outcome = "pending")
  /\ []((last.op = "response" /\ last.method = "init"
           /\ last.answer.kind = "reject") =>
          /\ last.outcome = "resolved"
          /\ last.value = Undefined
          /\ ~exited)
  /\ [][(last'.op = "response" /\ last'.method = "init") => rpc' = rpc]_vars
  /\ [][(rpc # NoClient /\ rpc' # rpc) =>
          (last'.op = "destroy" /\ rpc' = NoClient)]_vars
  /\ []((last.op = "call" /\ last.handle # NoClient) =>
          IF last.method = "init"
          THEN last.outcome = "rejected" /\ last.value = Err("RPC already initialized")
          ELSE last.value # Err("RPC not initialized"))

\* The probe of an init() has rejected, init() has resolved, and the handle
\* it set is still set.
C12_Witness ==
  /\ last.op = "response"
  /\ last.method = "init"
  /\ last.answer.kind = "reject"
  /\ last.outcome = "resolved"
  /\ rpc # NoClient
  /\ ~exited

\* The process has ended exactly when the probe of an init() resolved to a
\* falsy chain info, and then with exit code 1; the completion of a probe
\* invokes nothing.
C13_ExitsOnFalsyProbeOnly ==
  /\ [](exited <=> (/\ last.op = "response"
                    /\ last.method = "init"
                    /\ last.answer.kind = "resolve"
                    /\ ~Truthy(last.answer.value)))
  /\ [](exited <=> last.outcome = "exit")
  /\ [](exited => last.value = Num(1))
  /\ [][(last'.op = "response" /\ last'.method = "init") =>
          BagCardinality(inflight') = BagCardinality(inflight) - 1]_vars

\* C13 as stated: init() ends the process with exit code 1 if and only if its
\* probe resolves to a falsy chain info, and in every other case makes
\* exactly one transport invocation and the process continues.
C13_ExitOrOneInvocation ==
  /\ C13_ExitsOnFalsyProbeOnly
  /\ []((last.op = "call" /\ last.method = "init") =>
          (last.invoked = 1 /\ last.outcome = "pending"))

\* C13, amended: init() ends the process with exit code 1 if and only if its
\* probe resolves to a falsy chain info; an init() called with a null handle
\* makes exactly one transport invocation, and one called with the handle
\* set makes none and rejects; in both cases the process continues unless
\* the probe resolves to a falsy chain info.
C13_ExitOrOneInvocationIfHandleNull ==
  /\ C13_ExitsOnFalsyProbeOnly
  /\ [][(last'.op = "call" /\ last'.method = "init" /\ rpc = NoClient) =>
          /\ last'.invoked = 1
          /\ last'.outcome = "pending"
          /\ BagCardinality(inflight') = BagCardinality(inflight) + 1]_vars
  /\ [][(last'.op = "call" /\ last'.method = "init" /\ rpc # NoClient) =>
          /\ last'.invoked = 0
          /\ last'.outcome = "rejected"
          /\ inflight' = inflight]_vars

\* The probe of an init() has resolved to null and the process has ended
\* with exit code 1.
C13_Witness ==
  /\ exited
  /\ last.method = "init"
  /\ last.answer = Resolve(Null)
  /\ last.outcome = "exit"
  /\ last.value = Num(1)

\* C14: destroy() resets the facade and is idempotent: when destroy() has
\* returned, the handle, blockchainInfo and currentBlockInfo are null and the
\* purge timer is cleared; a cleared timer stays cleared and never fires; a
\* destroy() that follows a destroy() changes no field of the facade; and an
\* init() called with the null handle is accepted.
C14_DestroyResets ==
  /\ [](last.op = "destroy" =>
          /\ rpc = NoClient
          /\ blockchainInfo = Null
          /\ currentBlockInfo = Null
          /\ purgeInterval = "cleared")
  /\ [][purgeInterval = "cleared" =>
          (purgeInterval' = "cleared" /\ last'.op # "purge")]_vars
  /\ [][(last.op = "destroy" /\ last'.op = "destroy") =>
          UNCHANGED <<rpc, blockchainInfo, currentBlockInfo, purgeInterval,
                      enableDebug, exited, inflight>>]_vars
  /\ [][(last.op = "destroy" /\ last'.op = "call" /\ last'.method = "init") =>
          /\ last'.outcome = "pending"
          /\ last'.value # Err("RPC already initialized")
          /\ rpc' # NoClient]_vars

\* After a destroy() that followed an init(), a second init() has been
\* accepted and awaits its probe, and the purge timer is still cleared.
C14_Witness ==
  /\ last.op = "call"
  /\ last.method = "init"
  /\ last.handle = NoClient
  /\ last.outcome = "pending"
  /\ rpc # NoClient
  /\ purgeInterval = "cleared"
  /\ BagCardinality(inflight) = 2

SilentVoidMethods == {"importPrivateKey", "preciousBlock", "saveMempool"}
RethrowingVoidMethods ==
  {"invalidateBlock", "reconsiderBlock", "newKeypool", "sendMsgToPeer"}

\* C15: importPrivateKey, preciousBlock and saveMempool never reject once the
\* handle is initialized: the call awaits the transport, and whether the
\* transport then resolves or rejects the call resolves to undefined; whereas
\* invalidateBlock, reconsiderBlock, newKeypool and sendMsgToPeer reject with
\* the transport's error.
C15_SilentVoidMethods ==
  /\ []((last.op = "call" /\ last.method \in SilentVoidMethods
           /\ last.handle # NoClient) =>
          last.outcome = "pending")
  /\ []((last.op = "response" /\ last.method \in SilentVoidMethods) =>
          (last.outcome = "resolved" /\ last.value = Undefined))
  /\ []((last.op = "response" /\ last.method \in RethrowingVoidMethods
           /\ last.answer.kind = "reject") =>
          (last.outcome = "rejected" /\ last.value = last.answer.value))

\* The transport has rejected the call saveMempool() awaited and
\* saveMempool() has resolved.
C15_Witness ==
  /\ last.op = "response"
  /\ last.method = "saveMempool"
  /\ last.answer.kind = "reject"
  /\ last.outcome = "resolved"
  /\ last.value = Undefined

\* C16: optional arguments are forwarded whenever supplied: the object that
\* getNodeAddresses(count), upgradeWallet(version),
\* getDeploymentInfo(blockHash) and getIndexInfo(indexName) pass to the
\* transport holds the argument under its key with the caller's value
\* whenever the caller supplied one (0 and the empty string included), and
\* is the empty object only when the argument was left out.
C16_OptionalArgumentsForwarded ==
  (last.op = "call" /\ last.method \in DOMAIN OptionalKey /\ last.invoked = 1) =>
    last.passed =
      <<IF last.args.optional = Undefined
        THEN {}
        ELSE {<<OptionalKey[last.method], last.args.optional>>}>>

\* The entries of an object under a key.
C17_Entries(object, key) == {p \in object : p[1] = key}

\* C17: the verbose flag that getRawTransaction, getRawTransactions,
\* getRawMempool, getMempoolAncestors and getMempoolDescendants pass to the
\* transport is false if and only if the caller's verbosity argument is
\* BitcoinVerbosity.RAW, and true for every other value and for an argument
\* left out; and getRawTransaction passes blockhash, with the caller's
\* value, only when it was given a non-empty blockHash.
C17_VerbosityMapping ==
  (last.op = "call" /\ last.method \in VerbosityMethods /\ last.invoked = 1) =>
    LET flag == IF last.args.optional = BitcoinVerbosity.RAW
                THEN Bool(FALSE)
                ELSE Bool(TRUE)
    IN  /\ IF last.method = "getRawTransactions"
           THEN last.passed[2] = flag
           ELSE C17_Entries(last.passed[1], "verbose") = {<<"verbose", flag>>}
        /\ last.method = "getRawTransaction" =>
             C17_Entries(last.passed[1], "blockhash") =
               IF last.args.blockHash \in {Undefined, Str("")}
               THEN {}
               ELSE {<<"blockhash", last.args.blockHash>>}

\* getRawTransaction was called with verbosity RAW and a block hash, and has
\* passed verbose: false and the block hash to the transport.
C17_Witness ==
  /\ last.op = "call"
  /\ last.method = "getRawTransaction"
  /\ last.args.optional = BitcoinVerbosity.RAW
  /\ last.args.blockHash = Str("00ab")
  /\ last.passed = <<{<<"txid", Str("tx")>>, <<"verbose", Bool(FALSE)>>,
                      <<"blockhash", Str("00ab")>>}>>

\* C18: no retries and no fan-out.  A call of an RPC method starts at most
\* one transport invocation: exactly one when the handle is set, except that
\* getBlockHeight() starts none when currentBlockInfo is cached, and none
\* when the handle is null; and the completion of an invocation, resolved or
\* rejected, takes it away and starts no other, as the purge timer and
\* destroy() start none.
C18_AtMostOneInvocation ==
  /\ [][(last'.op = "call" /\ last'.method \in Methods) =>
          /\ last'.invoked =
               IF \/ rpc = NoClient
                  \/ (last'.method = "getBlockHeight" /\ currentBlockInfo # Null)
               THEN 0
               ELSE 1
          /\ inflight' = IF last'.invoked = 1
                         THEN inflight (+) SetToBag({last'.method})
                         ELSE inflight]_vars
  /\ [][last'.op = "response" =>
          /\ last'.invoked = 0
          /\ inflight' = inflight (-) SetToBag({last'.method})
          /\ BagCardinality(inflight') = BagCardinality(inflight) - 1]_vars
  /\ [][last'.op \in {"purge", "destroy"} => inflight' = inflight]_vars

\* The one invocation of a forwarding method has rejected and no invocation
\* is left awaiting an answer.
C18_Witness ==
  /\ last.op = "response"
  /\ last.method \in GenericMethods
  /\ last.answer.kind = "reject"
  /\ rpc # NoClient
  /\ inflight = EmptyBag

\* C19: in every reachable state blockchainInfo and currentBlockInfo are
\* either both null, or both non-null with currentBlockInfo =
\* {blockHeight: blockchainInfo.blocks, blockHash:
\* blockchainInfo.bestblockhash}; also after a getChainInfo() whose transport
\* call resolved to null while an earlier snapshot was cached.
C19_CacheConsistent ==
  IF blockchainInfo = Null
  THEN currentBlockInfo = Null
  ELSE /\ currentBlockInfo # Null
       /\ currentBlockInfo = [t |-> "object",
                              blockHeight |-> blockchainInfo.blocks,
                              blockHash |-> blockchainInfo.bestblockhash]

\* C20: destroy() is final for the cache: from the return of destroy() to
\* the next call of init(), that is while the handle is null, blockchainInfo
\* and currentBlockInfo are null, also when the answer to a getChainInfo()
\* or getBlockHeight() that was awaiting the transport arrives in between.
C20_CacheNullWhileDestroyed ==
  rpc = NoClient => (blockchainInfo = Null /\ currentBlockInfo = Null)

\* C21: overlapping getChainInfo() calls.  When the answer to one
\* getChainInfo() arrives right after the answer to another, so that the two
\* calls were awaiting the transport at once and neither a purge tick nor
\* destroy() came in between, the caller of the second receives what the
\* transport returned to it, and the cache then holds that result:
\* blockchainInfo is the result and currentBlockInfo is derived from it, or
\* null when the result is null.
C21_LastResponseWins ==
  [][(/\ last.op = "response" /\ last.method = "getChainInfo"
      /\ last.answer.kind = "resolve"
      /\ last'.op = "response" /\ last'.method = "getChainInfo"
      /\ last'.answer.kind = "resolve") =>
       /\ last'.outcome = "resolved"
       /\ last'.value = last'.answer.value
       /\ blockchainInfo' = last'.answer.value
       /\ currentBlockInfo' = IF last'.answer.value = Null
                              THEN Null
                              ELSE [t |-> "object",
                                    blockHeight |-> last'.answer.value.blocks,
                                    blockHash |-> last'.answer.value.bestblockhash]]_vars

\* The public methods other than init, destroy, getChainInfo and
\* getBlockHeight.
C22_FramedMethods == GenericMethods \cup {"getRpcConfigFromBlockchainConfig"}

\* C22: frame condition.  No step of a public method other than init,
\* destroy, getChainInfo and getBlockHeight, neither its call nor the
\* completion of its transport call, resolved or rejected, changes the
\* transport handle, blockchainInfo, currentBlockInfo or the purge timer.
C22_Frame ==
  [][(last'.op \in {"call", "response"} /\ last'.method \in C22_FramedMethods) =>
       UNCHANGED <<rpc, blockchainInfo, currentBlockInfo, purgeInterval>>]_vars

\* With the handle set, a chain info cached and the timer running, the
\* transport call of a forwarding method has failed, and the cache still
\* holds the chain info.
C22_Witness ==
  /\ last.op = "response"
  /\ last.method \in C22_FramedMethods
  /\ last.answer.kind = "reject"
  /\ rpc # NoClient
  /\ blockchainInfo # Null
  /\ currentBlockInfo # Null
  /\ purgeInterval = "active"

\* C23: secrets do not reach the facade's messages.  No step reads the
\* arguments of an earlier call, so two runs that differ only in a secret
\* argument take the same steps, and their message sequences are equal if
\* each call logs the same messages whatever its secret is: the messages of
\* a call with a privateKey, passphrase or BITCOIND_PASSWORD are those of the
\* same call with any other secret, and no part of a logged message is the
\* secret; a later step logs at most the transport's error.
C23_SecretsNotLogged ==
  /\ (last.op = "call" /\ last.args.secret # Undefined) =>
       /\ \A s \in Secrets :
            last.messages =
              DebugMessages(last.method, [last.args EXCEPT !.secret = s],
                            enableDebug)
       /\ \A i \in DOMAIN last.messages :
            \A j \in DOMAIN last.messages[i] :
              last.messages[i][j] # last.args.secret
  /\ last.op = "response" =>
       /\ last.args.secret = Undefined
       /\ \A i \in DOMAIN last.messages :
            \A j \in DOMAIN last.messages[i] : last.messages[i][j] \notin Secrets

\* importPrivateKey was called with a private key while debugging is enabled
\* and has logged its label.
C23_Witness ==
  /\ last.op = "call"
  /\ last.method = "importPrivateKey"
  /\ last.args.secret = Str("s3cret-B")
  /\ last.invoked = 1
  /\ enableDebug
  /\ last.messages = <<<<Str("importPrivateKey "), Str("label")>>>>
  /\ <<"privkey", Str("s3cret-B")>> \in last.passed[1]

=============================================================================
